---- MODULE Spec2Model ----
(***************************************************************************)
(* The stateful rendering context of piet-wgpu (src/src/context.rs):       *)
(* the save/restore state stack, the clip stack, the primitive table, the  *)
(* geometry batch and the frame submission (custom passes, finish); the    *)
(* replay of cached vector images (draw_svg); and the text layout of       *)
(* src/src/text.rs (range attributes, rebuild, draw_text).                 *)
(*                                                                         *)
(* Coordinates and affine coefficients are integers: every input the model *)
(* draws is a small integer, on which the f64 arithmetic of the code and   *)
(* its `as f32` conversions are exact.                                     *)
(***************************************************************************)
EXTENDS Integers, Sequences, FiniteSets, TLC

VARIABLES
    cur_transform,          \* WgpuRenderContext.cur_transform : Affine
    state_stack,            \* WgpuRenderContext.state_stack : Vec<State>
    clip_stack,             \* WgpuRenderContext.clip_stack : Vec<Rect>
    primitives,             \* WgpuRenderContext.primitives : Vec<Primitive>
    geometry,               \* WgpuRenderContext.geometry : VertexBuffers<GpuVertex, u32>
    draw_command_buffers,   \* Option<Vec<wgpu::CommandBuffer>>
    texture,                \* Option<wgpu::SurfaceTexture>
    tex_view,               \* Option<Rc<TextureView>>
    encoder,                \* the renderer's primary encoder: present or not
    gpu,                    \* what the surface and the queue have been asked to do, in order
    overflow_checks,        \* the build: Some(TRUE) panics on integer overflow, Some(FALSE)
                            \* wraps; None until a subtraction overflows and shows which
    panicked,               \* a call has panicked: the context is gone
    result,                 \* the value the last call returned
    op,                     \* the name of the last call
    calls,                  \* the context methods the last call ran in turn, in order
    saved,                  \* history: per state frame, the transform and clip stack at its save()
    svg_store,              \* renderer.svg_store: the cached tessellation of each image drawn
    text_layout,            \* a WgpuTextLayoutBuilder, or the WgpuTextLayout built from it
    text_queue              \* what renderer.text_pipeline.queue() was last given

vars == <<cur_transform, state_stack, clip_stack, primitives, geometry,
          draw_command_buffers, texture, tex_view, encoder, gpu,
          overflow_checks, panicked, result, op, calls, saved, svg_store,
          text_layout, text_queue>>

----------------------------------------------------------------------------
(* Bounds of the model. *)

MaxPrims == 3       \* primitive records in the table
MaxDepth == 2       \* frames on the state stack
MaxVerts == 8       \* vertices in the geometry batch
MaxPasses == 2      \* queued custom command buffers
MaxFramePrims == 1  \* primitive records, where the frame's submission is explored
MaxFrameVerts == 4  \* vertices, where the frame's submission is explored
MaxSvgVerts == 9    \* vertices in the batch once a vector image is drawn into it
MaxSpans == 2       \* range attributes given to a layout builder
MaxDraws == 2       \* draw_text calls on a layout

(* primitive_id is a u32, held as its two 16-bit halves <<high, low>>. *)
Half == 65536

----------------------------------------------------------------------------
(* Option<T>. *)

None == [some |-> FALSE]
Some(x) == [some |-> TRUE, v |-> x]

Last(s) == s[Len(s)]
Front(s) == SubSeq(s, 1, Len(s) - 1)

(* u32 arithmetic on the halves. *)
U32Of(n) == <<n \div Half, n % Half>>
U32WrappingSub1(x) ==
    IF x[2] > 0 THEN <<x[1], x[2] - 1>>
    ELSE IF x[1] > 0 THEN <<x[1] - 1, Half - 1>>
    ELSE <<Half - 1, Half - 1>>
U32Add(x, y) ==
    <<(x[1] + y[1] + (x[2] + y[2]) \div Half) % Half, (x[2] + y[2]) % Half>>
(* x < n, for a length n. *)
U32Less(x, n) == x[1] < n \div Half \/ (x[1] = n \div Half /\ x[2] < n % Half)

(* kurbo::Affine: the coefficients [a, b, c, d, e, f] of as_coeffs(). *)
Identity == <<1, 0, 0, 1, 0, 0>>
Translate(x, y) == <<1, 0, 0, 1, x, y>>
Scale(s) == <<s, 0, 0, s, 0, 0>>

(* Affine * Affine, as `*=` on cur_transform and rel_transform uses it. *)
AffineMul(a, b) ==
    << a[1] * b[1] + a[3] * b[2],
       a[2] * b[1] + a[4] * b[2],
       a[1] * b[3] + a[3] * b[4],
       a[2] * b[3] + a[4] * b[4],
       a[1] * b[5] + a[3] * b[6] + a[5],
       a[2] * b[5] + a[4] * b[6] + a[6] >>

(* Rect + Vec2: kurbo rectangles are <<x0, y0, x1, y1>>. *)
RectAdd(r, v) == <<r[1] + v[1], r[2] + v[2], r[3] + v[1], r[4] + v[2]>>

(* Rect::inflate(width, height). *)
Inflate(r, w, h) == <<r[1] - w, r[2] - h, r[3] + w, r[4] + h>>

(* Shapes: a rectangle, a line, or a path of elements. *)
RectShape(r) == [kind |-> "rect", rect |-> r]
LineShape(p0, p1) == [kind |-> "line", pts |-> <<p0, p1>>]
PathShape(ps) == [kind |-> "path", pts |-> ps]

(* Shape::as_rect() and Shape::as_line(). *)
as_rect(shape) == IF shape.kind = "rect" THEN Some(shape.rect) ELSE None
as_line(shape) == IF shape.kind = "line" THEN Some(shape.pts) ELSE None

(* The inputs the calls are given. *)
RectA == <<0, 0, 10, 10>>
RectB == <<2, 2, 6, 6>>
Deltas == {Translate(5, 5), Scale(2)}
Shapes == {RectShape(RectA), RectShape(RectB),
           LineShape(<<0, 0>>, <<10, 0>>),
           PathShape(<< <<0, 0>>, <<10, 0>>, <<10, 10>> >>)}
DrawShapes == Shapes \ {RectShape(RectB)}
Colors == {"red"}
Widths == {2}
Radii == {1}

----------------------------------------------------------------------------
(* The context as one value, so that a call can be applied to the result   *)
(* of another (with_save runs save, the callback's calls, then restore).   *)

Ctx ==
    [cur_transform |-> cur_transform, state_stack |-> state_stack,
     clip_stack |-> clip_stack, primitives |-> primitives, geometry |-> geometry,
     draw_command_buffers |-> draw_command_buffers, texture |-> texture,
     tex_view |-> tex_view, encoder |-> encoder, gpu |-> gpu,
     overflow_checks |-> overflow_checks, panicked |-> panicked,
     result |-> result, op |-> op, calls |-> calls, saved |-> saved,
     svg_store |-> svg_store, text_layout |-> text_layout,
     text_queue |-> text_queue]

Install(c) ==
    /\ cur_transform' = c.cur_transform
    /\ state_stack' = c.state_stack
    /\ clip_stack' = c.clip_stack
    /\ primitives' = c.primitives
    /\ geometry' = c.geometry
    /\ draw_command_buffers' = c.draw_command_buffers
    /\ texture' = c.texture
    /\ tex_view' = c.tex_view
    /\ encoder' = c.encoder
    /\ gpu' = c.gpu
    /\ overflow_checks' = c.overflow_checks
    /\ panicked' = c.panicked
    /\ result' = c.result
    /\ op' = c.op
    /\ calls' = c.calls
    /\ saved' = c.saved
    /\ svg_store' = c.svg_store
    /\ text_layout' = c.text_layout
    /\ text_queue' = c.text_queue

(* A call begins. *)
Begin(c, name) == [c EXCEPT !.op = name, !.calls = <<>>]
Called(c, name) == [c EXCEPT !.calls = Append(@, name)]
Return(c, r) == [c EXCEPT !.result = r]
Panic(c) == [c EXCEPT !.panicked = TRUE, !.result = "panic"]

----------------------------------------------------------------------------
(* The primitive table. *)

(* Primitive::default(): no translate, identity transform, no clip, no blur. *)
PrimitiveDefault ==
    [translate |-> <<0, 0>>, transform_1 |-> <<1, 0, 0, 1>>, transform_2 |-> <<0, 0>>,
     clip |-> 0, clip_rect |-> <<0, 0, 0, 0>>,
     blur_radius |-> 0, blur_rect |-> <<0, 0, 0, 0>>]

pop_clip(stack) == IF stack = <<>> THEN stack ELSE Front(stack)

(* current_clip() that consults the first rectangle pushed. *)
current_clip_first(stack) == IF stack = <<>> THEN None ELSE Some(stack[1])

current_clip(stack) == IF stack = <<>> THEN None ELSE Some(Last(stack))

add_primitive(c) ==
    LET affine == c.cur_transform
        cc == current_clip(c.clip_stack)
    IN  [c EXCEPT !.primitives = Append(@,
            [PrimitiveDefault EXCEPT
                !.translate = <<affine[5], affine[6]>>,
                !.clip = IF cc.some THEN 1 ELSE 0,
                !.clip_rect = IF cc.some THEN cc.v ELSE <<0, 0, 0, 0>>])]

----------------------------------------------------------------------------
(* The tessellator (lyon) as the adapter uses it: a mesh is a sequence of  *)
(* vertices and a sequence of indices relative to the mesh's first vertex. *)

(* lyon::geom::Rect::new(Point(x0, y0), Size(width, height)). *)
LyonRect(r) == <<r[1], r[2], r[1] + (r[3] - r[1]), r[2] + (r[4] - r[2])>>

(* FillTessellator::tessellate_rectangle: four corners, two triangles. *)
FillRectangle(r) ==
    [positions |-> << <<r[1], r[2]>>, <<r[1], r[4]>>, <<r[3], r[4]>>, <<r[3], r[2]>> >>,
     indices |-> <<0, 1, 2, 0, 2, 3>>]

Sgn(x) == IF x > 0 THEN 1 ELSE IF x < 0 THEN -1 ELSE 0

(* The left normal of the segment p -> q (axis-aligned segments). *)
Perp(p, q) == <<-Sgn(q[2] - p[2]), Sgn(q[1] - p[1])>>

(* The stroke normal at point i: the sum of the normals of the segments    *)
(* that meet there (the miter direction of an axis-aligned corner).        *)
NormalAt(pts, closed, i) ==
    LET n == Len(pts)
        prev == IF i > 1 THEN Perp(pts[i - 1], pts[i])
                ELSE IF closed /\ n > 2 THEN Perp(pts[n], pts[1]) ELSE <<0, 0>>
        next == IF i < n THEN Perp(pts[i], pts[i + 1])
                ELSE IF closed /\ n > 2 THEN Perp(pts[n], pts[1]) ELSE <<0, 0>>
    IN  <<prev[1] + next[1], prev[2] + next[2]>>

(* StrokeTessellator: two StrokeVertex per path point (one on each side,   *)
(* position_on_path and normal), and two triangles per segment.            *)
StrokePath(pts, closed) ==
    LET n == Len(pts)
        segs == IF closed /\ n > 2 THEN n ELSE n - 1
        vert(k) == LET i == (k + 1) \div 2
                       nrm == NormalAt(pts, closed, i)
                   IN  IF k % 2 = 1
                       THEN [position_on_path |-> pts[i], normal |-> nrm]
                       ELSE [position_on_path |-> pts[i],
                             normal |-> <<-nrm[1], -nrm[2]>>]
        quad(s) == LET a == 2 * (s - 1)
                       b == 2 * (s % n)
                   IN  <<a, a + 1, b, a + 1, b + 1, b>>
    IN  [vertices |-> [k \in 1..(2 * n) |-> vert(k)],
         indices |-> [j \in 1..(6 * segs) |-> quad(((j - 1) \div 6) + 1)[((j - 1) % 6) + 1]]]

(* The corners of a rectangle, as the stroke tessellator walks them. *)
RectCorners(r) == << <<r[1], r[2]>>, <<r[3], r[2]>>, <<r[3], r[4]>>, <<r[1], r[4]>> >>

(* BuffersBuilder::new(&mut geometry, ctor): the vertices are appended and *)
(* the mesh's indices are offset by the vertex count before the call.      *)
(* table_len and clip_top are history: the primitive table's length and    *)
(* the top of the clip stack at the append.                                *)
AppendMesh(c, positions, indices, color, primitive_id) ==
    LET offset == Len(c.geometry.vertices)
    IN  [c EXCEPT !.geometry =
            [vertices |-> @.vertices \o
                [k \in 1..Len(positions) |->
                    [pos |-> positions[k], color |-> color,
                     primitive_id |-> primitive_id,
                     translate |-> <<0, 0>>,
                     table_len |-> Len(c.primitives),
                     clip_top |-> current_clip(c.clip_stack)]],
             indices |-> @.indices \o
                [k \in 1..Len(indices) |-> indices[k] + offset]]]

(* format_color: the sRGB channels are linearised, alpha is kept. *)
format_color(color) == <<"linear", color>>

(* `self.primitives.len() as u32 - 1`: the subtraction overflows on an     *)
(* empty table; the build decides whether that panics or wraps.            *)
LastPrimitiveId(c) == U32WrappingSub1(U32Of(Len(c.primitives)))
LastPrimitiveIdOverflows(c) == Len(c.primitives) = 0

(* The builds the context may be running as: the one already seen, or     *)
(* either while no overflow has shown it.                                  *)
Builds(c) == IF c.overflow_checks.some THEN {c.overflow_checks.v} ELSE BOOLEAN
Overflow(c, checks) ==
    IF checks THEN Panic([c EXCEPT !.overflow_checks = Some(TRUE)])
    ELSE [c EXCEPT !.overflow_checks = Some(FALSE)]

----------------------------------------------------------------------------
(* The drawing calls of the RenderContext implementation. *)

(* State { rel_transform, transform, n_clip }. *)
State(rel, t, n) == [rel_transform |-> rel, transform |-> t, n_clip |-> n]

save(c) ==
    LET c1 == Called(c, "save")
    IN  Return([c1 EXCEPT
                    !.state_stack = Append(@, State(Identity, c.cur_transform, 0)),
                    !.saved = Append(@, [transform |-> c.cur_transform,
                                         clip_stack |-> c.clip_stack])],
               "Ok")

(* The pop loop run once whatever the counter says. *)
PopClipsOnce(stack, n) == IF n = 0 THEN stack ELSE pop_clip(stack)

RECURSIVE PopClips(_, _)
(* `for _ in 0..state.n_clip { self.pop_clip(); }` *)
PopClips(stack, n) == IF n = 0 THEN stack ELSE PopClips(pop_clip(stack), n - 1)

(* restore() that leaves the current transform as the frame's calls made it. *)
restore_keeps_transform(c) ==
    LET c1 == Called(c, "restore")
    IN  IF c.state_stack # <<>>
        THEN LET state == Last(c.state_stack)
             IN  Return(add_primitive(
                     [c1 EXCEPT !.state_stack = Front(@),
                                !.saved = Front(@),
                                !.clip_stack = PopClips(@, state.n_clip)]),
                     "Ok")
        ELSE Return(c1, "StackUnbalance")

(* restore() that treats an empty state stack as a frame without clips. *)
restore_empty_is_ok(c) ==
    LET c1 == Called(c, "restore")
    IN  IF c.state_stack # <<>>
        THEN LET state == Last(c.state_stack)
             IN  Return(add_primitive(
                     [c1 EXCEPT !.state_stack = Front(@),
                                !.saved = Front(@),
                                !.cur_transform = state.transform,
                                !.clip_stack = PopClips(@, state.n_clip)]),
                     "Ok")
        ELSE Return(add_primitive(c1), "Ok")

(* restore() that emits its record before it puts the transform back. *)
restore_adds_before_reset(c) ==
    LET c1 == Called(c, "restore")
    IN  IF c.state_stack # <<>>
        THEN LET state == Last(c.state_stack)
                 c2 == add_primitive(
                         [c1 EXCEPT !.state_stack = Front(@),
                                    !.saved = Front(@),
                                    !.clip_stack = PopClips(@, state.n_clip)])
             IN  Return([c2 EXCEPT !.cur_transform = state.transform], "Ok")
        ELSE Return(c1, "StackUnbalance")

restore(c) ==
    LET c1 == Called(c, "restore")
    IN  IF c.state_stack # <<>>
        THEN LET state == Last(c.state_stack)
             IN  Return(add_primitive(
                     [c1 EXCEPT !.state_stack = Front(@),
                                !.saved = Front(@),
                                !.cur_transform = state.transform,
                                !.clip_stack = PopClips(@, state.n_clip)]),
                     "Ok")
        ELSE Return(c1, "StackUnbalance")

(* transform() that composes the delta into the current transform alone. *)
transform_skips_rel(c, t) ==
    LET c1 == Called(c, "transform")
    IN  Return(add_primitive([c1 EXCEPT !.cur_transform = AffineMul(@, t)]), "Ok")

transform(c, t) ==
    LET c1 == Called(c, "transform")
        c2 == IF c.state_stack # <<>>
              THEN [c1 EXCEPT !.state_stack[Len(c.state_stack)].rel_transform =
                                    AffineMul(@, t)]
              ELSE c1
    IN  Return(add_primitive([c2 EXCEPT !.cur_transform = AffineMul(@, t)]), "Ok")

clip(c, shape) ==
    LET c1 == Called(c, "clip")
        r == as_rect(shape)
    IN  IF r.some
        THEN LET affine == c.cur_transform
                 rect == RectAdd(r.v, <<affine[5], affine[6]>>)
                 c2 == [c1 EXCEPT !.clip_stack = Append(@, rect)]
                 c3 == IF c.state_stack # <<>>
                       THEN [c2 EXCEPT !.state_stack[Len(c.state_stack)].n_clip = @ + 1]
                       ELSE c2
             IN  Return(add_primitive(c3), "Ok")
        ELSE Return(c1, "Ok")

(* checks: whether the build checks integer overflow. *)
fill(c, shape, brush, checks) ==
    LET c1 == Called(c, "fill")
        r == as_rect(shape)
    IN  IF r.some
        THEN LET c2 == IF LastPrimitiveIdOverflows(c) THEN Overflow(c1, checks) ELSE c1
                 mesh == FillRectangle(LyonRect(r.v))
             IN  IF c2.panicked THEN c2
                 ELSE Return(AppendMesh(c2, mesh.positions, mesh.indices,
                                        format_color(brush), LastPrimitiveId(c)),
                             "Ok")
        ELSE Return(c1, "Ok")

(* The path the stroke tessellator is given: a rectangle's outline, the    *)
(* line closed on itself, or the shape's path elements.                    *)
StrokeOutline(shape) ==
    IF as_rect(shape).some THEN StrokePath(RectCorners(LyonRect(shape.rect)), TRUE)
    ELSE IF as_line(shape).some THEN StrokePath(shape.pts, TRUE)
    ELSE StrokePath(shape.pts, FALSE)

stroke(c, shape, brush, width, checks) ==
    LET c1 == Called(c, "stroke")
        c2 == IF LastPrimitiveIdOverflows(c) THEN Overflow(c1, checks) ELSE c1
    IN  IF c2.panicked THEN c2
        ELSE LET mesh == StrokeOutline(shape)
                 pos == [k \in 1..Len(mesh.vertices) |->
                            LET v == mesh.vertices[k]
                            IN  <<v.position_on_path[1] + (v.normal[1] * width) \div 2,
                                  v.position_on_path[2] + (v.normal[2] * width) \div 2>>]
             IN  Return(AppendMesh(c2, pos, mesh.indices, format_color(brush),
                                   LastPrimitiveId(c)),
                        "Ok")

(* blurred_rect that writes the blur into the table's last record when     *)
(* there is one, instead of appending a record for it.                     *)
blurred_rect_reuses_record(c, rect0, blur_radius, brush) ==
    LET c1 == Called(c, "blurred_rect")
        rect == Inflate(rect0, 3 * blur_radius, 3 * blur_radius)
        blur_rect == Inflate(rect, -3 * blur_radius, -3 * blur_radius)
        c2 == IF c1.primitives = <<>> THEN add_primitive(c1) ELSE c1
        c3 == [c2 EXCEPT !.primitives[Len(c2.primitives)] =
                            [@ EXCEPT !.blur_radius = blur_radius,
                                      !.blur_rect = blur_rect]]
        mesh == FillRectangle(LyonRect(rect))
        c4 == AppendMesh(c3, mesh.positions, mesh.indices, format_color(brush),
                         LastPrimitiveId(c3))
    IN  Return(add_primitive(c4), "Ok")

(* blurred_rect that tessellates after its second record is appended. *)
blurred_rect_tags_trailing(c, rect0, blur_radius, brush) ==
    LET c1 == Called(c, "blurred_rect")
        rect == Inflate(rect0, 3 * blur_radius, 3 * blur_radius)
        blur_rect == Inflate(rect, -3 * blur_radius, -3 * blur_radius)
        c2 == add_primitive(c1)
        c3 == add_primitive([c2 EXCEPT !.primitives[Len(c2.primitives)] =
                            [@ EXCEPT !.blur_radius = blur_radius,
                                      !.blur_rect = blur_rect]])
        mesh == FillRectangle(LyonRect(rect))
    IN  Return(AppendMesh(c3, mesh.positions, mesh.indices, format_color(brush),
                          LastPrimitiveId(c3)),
               "Ok")

(* blurred_rect without the record that follows its geometry. *)
blurred_rect_no_trailing(c, rect0, blur_radius, brush) ==
    LET c1 == Called(c, "blurred_rect")
        rect == Inflate(rect0, 3 * blur_radius, 3 * blur_radius)
        blur_rect == Inflate(rect, -3 * blur_radius, -3 * blur_radius)
        c2 == add_primitive(c1)
        c3 == [c2 EXCEPT !.primitives[Len(c2.primitives)] =
                            [@ EXCEPT !.blur_radius = blur_radius,
                                      !.blur_rect = blur_rect]]
        mesh == FillRectangle(LyonRect(rect))
    IN  Return(AppendMesh(c3, mesh.positions, mesh.indices, format_color(brush),
                          LastPrimitiveId(c3)),
               "Ok")

blurred_rect(c, rect0, blur_radius, brush) ==
    LET c1 == Called(c, "blurred_rect")
        rect == Inflate(rect0, 3 * blur_radius, 3 * blur_radius)
        blur_rect == Inflate(rect, -3 * blur_radius, -3 * blur_radius)
        c2 == add_primitive(c1)
        c3 == [c2 EXCEPT !.primitives[Len(c2.primitives)] =
                            [@ EXCEPT !.blur_radius = blur_radius,
                                      !.blur_rect = blur_rect]]
        mesh == FillRectangle(LyonRect(rect))
        c4 == AppendMesh(c3, mesh.positions, mesh.indices, format_color(brush),
                         LastPrimitiveId(c3))
    IN  Return(add_primitive(c4), "Ok")

(* The calls a with_save callback makes, one after the other; a panic      *)
(* unwinds out of the callback.                                            *)
Apply(c, call, checks) ==
    CASE call[1] = "save" -> save(c)
      [] call[1] = "restore" -> restore(c)
      [] call[1] = "transform" -> transform(c, call[2])
      [] call[1] = "clip" -> clip(c, call[2])
      [] call[1] = "fill" -> fill(c, call[2], call[3], checks)

RECURSIVE Run(_, _, _)
Run(c, body, checks) ==
    IF body = <<>> \/ c.panicked THEN c
    ELSE Run(Apply(c, body[1], checks), Tail(body), checks)

(* Result::and: the callback's error if it failed, else the restore's result. *)
ResultAnd(r1, r2) == IF r1 = "Ok" THEN r2 ELSE r1

(* with_save that returns the callback's error at once: `f(self)?;         *)
(* self.restore()`.                                                        *)
with_save_returns_early(c, f, checks) ==
    LET c1 == save(c)
        c2 == Called(Run(c1, f.body, checks), "f")
    IN  IF c2.panicked THEN c2
        ELSE IF f.ret # "Ok" THEN Return(c2, f.ret)
        ELSE restore(c2)

(* `self.save()?; f(self).and(self.restore())`: f is the calls it makes    *)
(* and the value it returns.                                               *)
with_save(c, f, checks) ==
    LET c1 == save(c)
        c2 == Called(Run(c1, f.body, checks), "f")
    IN  IF c2.panicked THEN c2
        ELSE LET c3 == restore(c2)
             IN  Return(c3, ResultAnd(f.ret, c3.result))

----------------------------------------------------------------------------
(* Vector images: the pre-parsed scene (Svg) and the renderer's cache of   *)
(* tessellations (svg_store), keyed by the image's identity.               *)

Min(a, b) == IF a <= b THEN a ELSE b
Width(r) == r[3] - r[1]
Height(r) == r[4] - r[2]

(* A cached vertex: its primitive index is local to the cache entry. *)
SvgVertex(pos, local) ==
    [pos |-> pos, color |-> format_color("black"), primitive_id |-> U32Of(local),
     translate |-> <<0, 0>>]

(* The images the calls are given: one without repeated instances, one     *)
(* with a single transform variant.                                        *)
SvgIcon ==
    [id |-> "icon", view_box |-> <<0, 0, 10, 10>>, transforms |-> <<>>,
     vertices |-> <<SvgVertex(<<0, 0>>, 0), SvgVertex(<<10, 0>>, 0),
                    SvgVertex(<<10, 10>>, 0)>>,
     indices |-> <<0, 1, 2>>]
SvgGrid ==
    [id |-> "grid", view_box |-> <<0, 0, 10, 10>>,
     transforms |-> << <<1, 0, 0, 1, 5, 0>> >>,
     vertices |-> <<SvgVertex(<<0, 0>>, 0), SvgVertex(<<5, 0>>, 0),
                    SvgVertex(<<5, 5>>, 0), SvgVertex(<<0, 5>>, 1),
                    SvgVertex(<<5, 10>>, 1), SvgVertex(<<0, 10>>, 1)>>,
     indices |-> <<0, 1, 2, 3, 4, 5>>]
Svgs == {SvgIcon, SvgGrid}
DestRects == {<<0, 0, 10, 10>>, <<5, 5, 25, 25>>}
Overrides == {None, Some("blue")}

(* The cache entry built for an image: its tessellation and its transform  *)
(* variants.                                                               *)
SvgData(svg) ==
    [geometry |-> [vertices |-> svg.vertices, indices |-> svg.indices],
     transforms |-> svg.transforms]

EmptyStore == [s \in {} |-> SvgData(SvgIcon)]

(* svg_store.get_svg_data(svg): the entry of the image, built on a miss. *)
get_svg_data(store, svg) ==
    IF svg.id \in DOMAIN store THEN store
    ELSE [s \in DOMAIN store \cup {svg.id} |->
            IF s = svg.id THEN SvgData(svg) ELSE store[s]]

RECURSIVE AddVariants(_, _, _)
(* `for transform in transforms { self.add_primitive(); ... }`: a record   *)
(* per transform variant, its coefficients scaled.                         *)
AddVariants(c, transforms, scale) ==
    IF transforms = <<>> THEN c
    ELSE LET t == transforms[1]
             c1 == add_primitive(c)
             c2 == [c1 EXCEPT !.primitives[Len(c1.primitives)] =
                        [@ EXCEPT !.transform_1 =
                                      <<@[1] * (scale * t[1]), @[2], @[3],
                                        @[4] * (scale * t[4])>>,
                                  !.transform_2 =
                                      <<@[1] + scale * t[5], @[2] + scale * t[6]>>]]
         IN  AddVariants(c2, Tail(transforms), scale)

(* The copies of the cached vertices that draw_svg appends. *)
SvgCopies(c, cached, translate, primitive_id, override_color) ==
    [k \in 1..Len(cached) |->
        [pos |-> cached[k].pos,
         color |-> IF override_color.some THEN override_color.v ELSE cached[k].color,
         primitive_id |-> U32Add(primitive_id, cached[k].primitive_id),
         translate |-> translate,
         table_len |-> Len(c.primitives),
         clip_top |-> current_clip(c.clip_stack)]]

(* draw_svg that rebases, moves and recolours the cached vertices in place *)
(* and appends them.                                                       *)
draw_svg_in_place(c, svg, rect, override_color) ==
    LET c1 == Called(c, "draw_svg")
        view_rect == svg.view_box
        scale == Min(Width(rect) \div Width(view_rect), Height(rect) \div Height(view_rect))
        translate == <<rect[1], rect[2]>>
        color == IF override_color.some THEN Some(format_color(override_color.v)) ELSE None
        store == get_svg_data(c.svg_store, svg)
        svg_data == store[svg.id]
        offset == Len(c.geometry.vertices)
        primitive_id == U32Of(Len(c.primitives))
        c2 == add_primitive(AddVariants(c1, svg_data.transforms, scale))
        vertices == SvgCopies(c2, svg_data.geometry.vertices, translate, primitive_id, color)
        indices == [k \in 1..Len(svg_data.geometry.indices) |->
                        svg_data.geometry.indices[k] + offset]
    IN  Return([c2 EXCEPT
                    !.svg_store = [store EXCEPT ![svg.id].geometry.vertices =
                                        [k \in 1..Len(vertices) |->
                                            [pos |-> vertices[k].pos,
                                             color |-> vertices[k].color,
                                             primitive_id |-> vertices[k].primitive_id,
                                             translate |-> vertices[k].translate]]],
                    !.geometry = [vertices |-> @.vertices \o vertices,
                                  indices |-> @.indices \o indices]],
               "Ok")

(* draw_svg that takes the base index once the records are appended. *)
draw_svg_base_after(c, svg, rect, override_color) ==
    LET c1 == Called(c, "draw_svg")
        view_rect == svg.view_box
        scale == Min(Width(rect) \div Width(view_rect), Height(rect) \div Height(view_rect))
        translate == <<rect[1], rect[2]>>
        color == IF override_color.some THEN Some(format_color(override_color.v)) ELSE None
        store == get_svg_data(c.svg_store, svg)
        svg_data == store[svg.id]
        offset == Len(c.geometry.vertices)
        c2 == add_primitive(AddVariants(c1, svg_data.transforms, scale))
        primitive_id == U32Of(Len(c2.primitives))
        vertices == SvgCopies(c2, svg_data.geometry.vertices, translate, primitive_id, color)
        indices == [k \in 1..Len(svg_data.geometry.indices) |->
                        svg_data.geometry.indices[k] + offset]
    IN  Return([c2 EXCEPT
                    !.svg_store = store,
                    !.geometry = [vertices |-> @.vertices \o vertices,
                                  indices |-> @.indices \o indices]],
               "Ok")

(* draw_svg that appends the cached indices as they are. *)
draw_svg_cached_indices(c, svg, rect, override_color) ==
    LET c1 == Called(c, "draw_svg")
        view_rect == svg.view_box
        scale == Min(Width(rect) \div Width(view_rect), Height(rect) \div Height(view_rect))
        translate == <<rect[1], rect[2]>>
        color == IF override_color.some THEN Some(format_color(override_color.v)) ELSE None
        store == get_svg_data(c.svg_store, svg)
        svg_data == store[svg.id]
        primitive_id == U32Of(Len(c.primitives))
        c2 == add_primitive(AddVariants(c1, svg_data.transforms, scale))
        vertices == SvgCopies(c2, svg_data.geometry.vertices, translate, primitive_id, color)
    IN  Return([c2 EXCEPT
                    !.svg_store = store,
                    !.geometry = [vertices |-> @.vertices \o vertices,
                                  indices |-> @.indices \o svg_data.geometry.indices]],
               "Ok")

(* The destination rectangles are whole multiples of the view box, on      *)
(* which the f32 scale is exact.                                           *)
draw_svg(c, svg, rect, override_color) ==
    LET c1 == Called(c, "draw_svg")
        view_rect == svg.view_box
        scale == Min(Width(rect) \div Width(view_rect), Height(rect) \div Height(view_rect))
        translate == <<rect[1], rect[2]>>
        color == IF override_color.some THEN Some(format_color(override_color.v)) ELSE None
        store == get_svg_data(c.svg_store, svg)
        svg_data == store[svg.id]
        offset == Len(c.geometry.vertices)
        primitive_id == U32Of(Len(c.primitives))
        c2 == add_primitive(AddVariants(c1, svg_data.transforms, scale))
        vertices == SvgCopies(c2, svg_data.geometry.vertices, translate, primitive_id, color)
        indices == [k \in 1..Len(svg_data.geometry.indices) |->
                        svg_data.geometry.indices[k] + offset]
    IN  Return([c2 EXCEPT
                    !.svg_store = store,
                    !.geometry = [vertices |-> @.vertices \o vertices,
                                  indices |-> @.indices \o indices]],
               "Ok")

----------------------------------------------------------------------------
(* The frame: the surface view, custom passes and finish(). *)

(* Surface::get_current_texture() hands out the surface's next texture;    *)
(* the model numbers them in the order they are acquired.                  *)
Acquired(log) == {i \in 1..Len(log) : log[i][1] = "acquire"}
NextTexture(log) == Cardinality(Acquired(log)) + 1

(* wgpu_view() that asks the surface for a texture on every call. *)
wgpu_view_uncached(c, surface_ok) ==
    LET c1 == Called(c, "wgpu_view")
    IN  IF ~surface_ok THEN Return(c1, "NotSupported")
        ELSE LET t == NextTexture(c.gpu)
             IN  Return([c1 EXCEPT !.gpu = Append(@, <<"acquire", t>>),
                                   !.texture = Some(t),
                                   !.tex_view = Some(t)],
                        "Ok")

(* surface_ok: whether get_current_texture() succeeds when it is called. *)
wgpu_view(c, surface_ok) ==
    LET c1 == Called(c, "wgpu_view")
    IN  IF c.tex_view.some THEN Return(c1, "Ok")
        ELSE IF ~surface_ok THEN Return(c1, "NotSupported")
        ELSE LET t == NextTexture(c.gpu)
             IN  Return([c1 EXCEPT !.gpu = Append(@, <<"acquire", t>>),
                                   !.texture = Some(t),
                                   !.tex_view = Some(t)],
                        "Ok")

(* RenderPassCtx::new, given the view wgpu_view() returned. *)
NewRenderPassCtx(label, view) ==
    [label |-> label, view |-> view, viewport_info |-> None, passes |-> 0,
     panicked |-> FALSE]

configure_viewport(pass) == [pass EXCEPT !.viewport_info = Some("viewport")]

(* begin_render_pass, then `.expect("Must have configured viewport")`. *)
render_pass_with_depth(pass) ==
    IF pass.viewport_info.some
    THEN [pass EXCEPT !.passes = @ + 1]
    ELSE [pass EXCEPT !.passes = @ + 1, !.panicked = TRUE]

RECURSIVE RunUsage(_, _)
RunUsage(pass, body) ==
    IF body = <<>> \/ pass.panicked THEN pass
    ELSE RunUsage(IF body[1] = "configure_viewport"
                  THEN configure_viewport(pass)
                  ELSE render_pass_with_depth(pass),
                  Tail(body))

(* pass_ctx.encoder.finish() *)
EncoderFinish(pass) == [label |-> pass.label, view |-> pass.view, passes |-> pass.passes]

(* custom_render_pass that queues the pass's buffer before it looks at the *)
(* callback's result.                                                      *)
custom_render_pass_queues_failed(c, label, usage, surface_ok) ==
    LET c1 == wgpu_view(Called(c, "custom_render_pass"), surface_ok)
    IN  IF c1.result # "Ok" THEN c1
        ELSE LET pass == RunUsage(NewRenderPassCtx(label, c1.tex_view.v), usage.body)
             IN  IF pass.panicked THEN Panic(c1)
                 ELSE IF ~c1.draw_command_buffers.some THEN Panic(c1)
                 ELSE Return([c1 EXCEPT !.draw_command_buffers =
                                            Some(Append(@.v, EncoderFinish(pass)))],
                             usage.ret)

custom_render_pass(c, label, usage, surface_ok) ==
    LET c1 == wgpu_view(Called(c, "custom_render_pass"), surface_ok)
    IN  IF c1.result # "Ok" THEN c1
        ELSE LET pass == RunUsage(NewRenderPassCtx(label, c1.tex_view.v), usage.body)
             IN  IF pass.panicked THEN Panic(c1)
                 ELSE IF usage.ret # "Ok" THEN Return(c1, usage.ret)
                 ELSE IF ~c1.draw_command_buffers.some THEN Panic(c1)
                 ELSE Return([c1 EXCEPT !.draw_command_buffers =
                                            Some(Append(@.v, EncoderFinish(pass)))],
                             "Ok")

(* upload_data + draw recorded by the primary encoder, then encoder.finish(). *)
PrimaryBuffer(c) ==
    [label |-> "primary", view |-> c.tex_view.v,
     vertices |-> Len(c.geometry.vertices), indices |-> Len(c.geometry.indices),
     primitives |-> Len(c.primitives)]

(* queue.submit(buffers): the buffers reach the queue in their order. *)
Submit(log, buffers) == log \o [k \in 1..Len(buffers) |-> <<"submit", buffers[k]>>]

(* finish() that returns at once when no primitive record was emitted. *)
finish_skips_empty_frame(c, surface_ok) ==
    LET c1 == [Called(c, "finish") EXCEPT !.encoder = TRUE]
        c2 == wgpu_view(c1, surface_ok)
    IN  IF c2.result # "Ok" THEN c2
        ELSE IF c2.primitives = <<>> THEN Return(c2, "Ok")
        ELSE LET c3 == [c2 EXCEPT !.encoder = FALSE,
                                  !.gpu = Submit(@, <<PrimaryBuffer(c2)>>)]
             IN  IF ~c3.draw_command_buffers.some THEN Panic(c3)
                 ELSE Return([c3 EXCEPT
                                 !.gpu = Append(Submit(@, c3.draw_command_buffers.v),
                                                <<"present", c3.texture.v>>),
                                 !.draw_command_buffers = None,
                                 !.texture = None,
                                 !.tex_view = None],
                             "Ok")

(* finish() that submits the custom passes' buffers before the primary one. *)
finish_customs_first(c, surface_ok) ==
    LET c1 == [Called(c, "finish") EXCEPT !.encoder = TRUE]
        c2 == wgpu_view(c1, surface_ok)
    IN  IF c2.result # "Ok" THEN c2
        ELSE IF ~c2.draw_command_buffers.some THEN Panic(c2)
        ELSE LET c3 == [c2 EXCEPT !.gpu = Submit(@, c2.draw_command_buffers.v),
                                  !.draw_command_buffers = None]
                 c4 == IF c3.primitives # <<>>
                       THEN [c3 EXCEPT !.encoder = FALSE,
                                       !.gpu = Submit(@, <<PrimaryBuffer(c3)>>)]
                       ELSE c3
             IN  Return([c4 EXCEPT !.gpu = Append(@, <<"present", c4.texture.v>>),
                                   !.texture = None,
                                   !.tex_view = None],
                        "Ok")

(* finish() that flushes the queued custom buffers before it looks at the   *)
(* view's result.                                                          *)
finish_flushes_without_view(c, surface_ok) ==
    LET c1 == [Called(c, "finish") EXCEPT !.encoder = TRUE]
        c2 == wgpu_view(c1, surface_ok)
    IN  IF c2.result # "Ok"
        THEN IF c2.draw_command_buffers.some
             THEN [c2 EXCEPT !.gpu = Append(Submit(@, c2.draw_command_buffers.v),
                                            <<"present", NextTexture(c2.gpu)>>),
                             !.draw_command_buffers = None]
             ELSE c2
        ELSE LET c3 == IF c2.primitives # <<>>
                       THEN [c2 EXCEPT !.encoder = FALSE,
                                       !.gpu = Submit(@, <<PrimaryBuffer(c2)>>)]
                       ELSE c2
             IN  IF ~c3.draw_command_buffers.some THEN Panic(c3)
                 ELSE Return([c3 EXCEPT
                                 !.gpu = Append(Submit(@, c3.draw_command_buffers.v),
                                                <<"present", c3.texture.v>>),
                                 !.draw_command_buffers = None,
                                 !.texture = None,
                                 !.tex_view = None],
                             "Ok")

finish(c, surface_ok) ==
    LET c1 == [Called(c, "finish") EXCEPT !.encoder = TRUE]
        c2 == wgpu_view(c1, surface_ok)
    IN  IF c2.result # "Ok" THEN c2
        ELSE LET c3 == IF c2.primitives # <<>>
                       THEN [c2 EXCEPT !.encoder = FALSE,
                                       !.gpu = Submit(@, <<PrimaryBuffer(c2)>>)]
                       ELSE c2
             IN  IF ~c3.draw_command_buffers.some THEN Panic(c3)
                 ELSE Return([c3 EXCEPT
                                 !.gpu = Append(Submit(@, c3.draw_command_buffers.v),
                                                <<"present", c3.texture.v>>),
                                 !.draw_command_buffers = None,
                                 !.texture = None,
                                 !.tex_view = None],
                             "Ok")

----------------------------------------------------------------------------
(* Text (src/src/text.rs): the layout builder, its range attributes, the   *)
(* layout's glyph instances and draw_text.                                 *)

(* piet::util::LayoutDefaults. *)
LayoutDefaults == [fg_color |-> "black", font |-> "system", font_size |-> 12]

(* Attributes::default(): no spans. *)
AttributesDefault ==
    [defaults |-> LayoutDefaults, color |-> <<>>, font |-> <<>>, size |-> <<>>]

(* Span::new(payload, range): a range is <<start, end>>, end excluded. *)
Span(payload, range) == [payload |-> payload, range |-> range]
Contains(range, index) == range[1] <= index /\ index < range[2]

(* TextAttribute. *)
TextColor(x) == [kind |-> "TextColor", v |-> x]
FontSize(x) == [kind |-> "FontSize", v |-> x]
FontFamily(x) == [kind |-> "FontFamily", v |-> x]

(* Attributes::add: `match attr { TextColor(color) => push, _ => {} }`. *)
Attributes_add(attrs, range, attr) ==
    IF attr.kind = "TextColor"
    THEN [attrs EXCEPT !.color = Append(@, Span(attr.v, range))]
    ELSE attrs

(* `for r in &spans { if r.range.contains(&index) { return r.payload } }   *)
(* default`: the first span that contains the index.                       *)
FirstMatch(spans, index, default) ==
    LET hits == {i \in 1..Len(spans) : Contains(spans[i].range, index)}
    IN  IF hits = {} THEN default
        ELSE spans[CHOOSE i \in hits : \A j \in hits : i <= j].payload

Attributes_color(attrs, index) == FirstMatch(attrs.color, index, attrs.defaults.fg_color)
Attributes_size(attrs, index) == FirstMatch(attrs.size, index, attrs.defaults.font_size)
Attributes_font(attrs, index) == FirstMatch(attrs.font, index, attrs.defaults.font)

(* piet::util::resolve_range(range, len): the bounds are kept within the   *)
(* text.                                                                   *)
resolve_range(range, len) == <<Min(range[1], len), Min(range[2], len)>>

(* The glyph cache: the atlas rectangle and the measured rectangle of a    *)
(* character at a font and size, or a failure for a character that cannot  *)
(* be rasterized.                                                          *)
get_glyph_pos(ch, font_family, font_size) ==
    IF ch = "?" THEN None
    ELSE LET w == (IF ch = "a" THEN 3 ELSE 5) * (font_size \div 12)
         IN  Some([rect |-> <<0, 0, w, font_size>>,
                   cache_rect |-> <<ch, font_family, font_size>>])

(* Color::as_rgba() as four f32. *)
as_rgba(x) == <<"rgba", x>>

(* WgpuTextLayoutBuilder::new(text): `added` is history, the range         *)
(* attributes the builder was given, in order.                             *)
new_text_layout(text) ==
    [stage |-> "builder", text |-> text, attrs |-> AttributesDefault,
     instances |-> <<>>, instances_origins |-> <<>>, added |-> <<>>, draws |-> 0]

range_attribute(builder, range, attribute) ==
    LET r == resolve_range(range, Len(builder.text))
    IN  [builder EXCEPT !.attrs = Attributes_add(@, r, attribute),
                        !.added = Append(@, [attr |-> attribute, range |-> r])]

(* TextLayoutBuilder::build: the layout, without instances. *)
build(builder) == [builder EXCEPT !.stage = "layout"]

RECURSIVE Walk(_, _, _, _, _)
(* The loop of rebuild() from character `index` (0-based) on, the pen at x. *)
Walk(layout, index, x, instances, origins) ==
    IF index >= Len(layout.text) THEN [instances |-> instances, origins |-> origins]
    ELSE LET ch == layout.text[index + 1]
             font_family == Attributes_font(layout.attrs, index)
             font_size == Attributes_size(layout.attrs, index)
             rgba == as_rgba(Attributes_color(layout.attrs, index))
             glyph_pos == get_glyph_pos(ch, font_family, font_size)
         IN  IF glyph_pos.some
             THEN Walk(layout, index + 1, x + Width(glyph_pos.v.rect),
                       Append(instances,
                              [origin |-> <<x, 0, 0>>,
                               size |-> <<Width(glyph_pos.v.rect),
                                          Height(glyph_pos.v.rect)>>,
                               tex |-> glyph_pos.v.cache_rect,
                               color |-> rgba]),
                       Append(origins, <<x, 0>>))
             ELSE Walk(layout, index + 1, x, instances, origins)

(* rebuild() that appends to the instances of the rebuild before. *)
rebuild_appends(layout) ==
    LET w == Walk(layout, 0, 0, layout.instances, layout.instances_origins)
    IN  [layout EXCEPT !.instances = w.instances, !.instances_origins = w.origins]

(* instances.clear(); instances_origins.clear(); then the walk. *)
rebuild(layout) ==
    LET w == Walk(layout, 0, 0, <<>>, <<>>)
    IN  [layout EXCEPT !.instances = w.instances, !.instances_origins = w.origins]

(* WgpuTextLayoutBuilder::build_with_ctx. *)
build_with_ctx(builder) == rebuild([builder EXCEPT !.stage = "layout"])

(* draw_text that moves each instance from where the last call left it. *)
draw_text_accumulates(layout, pos, z) ==
    [layout EXCEPT !.instances =
        [i \in 1..Len(layout.instances) |->
            [layout.instances[i] EXCEPT
                !.origin = <<@[1] + pos[1], @[2] + pos[2], z>>]],
        !.draws = @ + 1]

(* The instances after draw_text(ctx, pos, z); they are what the text      *)
(* pipeline is given. draws is history: the draw_text calls so far.        *)
draw_text(layout, pos, z) ==
    [layout EXCEPT !.instances =
        [i \in 1..Len(layout.instances) |->
            [layout.instances[i] EXCEPT
                !.origin = <<layout.instances_origins[i][1] + pos[1],
                             layout.instances_origins[i][2] + pos[2], z>>]],
        !.draws = @ + 1]

(* The inputs of the text calls. *)
Texts == {<<"a", "b">>, <<"a", "?", "b">>}
Ranges == {<<0, 2>>, <<1, 5>>}
TextAttributes == <<TextColor("red"), TextColor("blue"), FontSize(24), FontFamily("mono")>>
Origins == {<<0, 0>>, <<5, 5>>}
Depths == {0, 1}

----------------------------------------------------------------------------
(* The state machine. *)

(* WgpuRenderContext::new. *)
Init ==
    /\ cur_transform = Identity
    /\ state_stack = <<>>
    /\ clip_stack = <<>>
    /\ primitives = <<>>
    /\ geometry = [vertices |-> <<>>, indices |-> <<>>]
    /\ draw_command_buffers = Some(<<>>)
    /\ texture = None
    /\ tex_view = None
    /\ encoder = FALSE
    /\ gpu = <<>>
    /\ overflow_checks = None
    /\ panicked = FALSE
    /\ result = "Ok"
    /\ op = "new"
    /\ calls = <<>>
    /\ saved = <<>>
    /\ svg_store = EmptyStore
    /\ text_layout = None
    /\ text_queue = None

(* The model stops growing the collections at its bounds. *)
WithinBounds(c) ==
    /\ Len(c.primitives) <= MaxPrims
    /\ Len(c.state_stack) <= MaxDepth
    /\ Len(c.geometry.vertices) <= MaxVerts
    /\ c.draw_command_buffers.some => Len(c.draw_command_buffers.v) <= MaxPasses

(* A call's result becomes the state. *)
Do(c) == \E n \in {c} : WithinBounds(n) /\ Install(n)

(* What a with_save callback may call and return. *)
Bodies ==
    { <<>>,
      << <<"transform", Translate(5, 5)>> >>,
      << <<"clip", RectShape(RectB)>> >>,
      << <<"fill", RectShape(RectA), "red">> >>,
      << <<"restore">> >>,
      << <<"save">>, <<"clip", RectShape(RectA)>> >>,
      << <<"transform", Scale(2)>>, <<"clip", RectShape(RectB)>> >> }
Callbacks == [body : Bodies, ret : {"Ok", "NotSupported"}]

(* What a custom pass callback may do with its RenderPassCtx and return. *)
Usages ==
    [body : {<<"render_pass">>, <<"configure_viewport", "render_pass">>},
     ret : {"Ok", "Failed"}]
Labels == {"a", "b"}

Save ==
    /\ ~panicked
    /\ Do(save(Begin(Ctx, "save")))

Restore ==
    /\ ~panicked
    /\ Do(restore(Begin(Ctx, "restore")))

Transform ==
    /\ ~panicked
    /\ \E t \in Deltas : Do(transform(Begin(Ctx, "transform"), t))

Clip ==
    /\ ~panicked
    /\ \E shape \in Shapes : Do(clip(Begin(Ctx, "clip"), shape))

Fill ==
    /\ ~panicked
    /\ \E shape \in DrawShapes, brush \in Colors, checks \in Builds(Ctx) :
            Do(fill(Begin(Ctx, "fill"), shape, brush, checks))

Stroke ==
    /\ ~panicked
    /\ \E shape \in DrawShapes, brush \in Colors, width \in Widths, checks \in Builds(Ctx) :
            Do(stroke(Begin(Ctx, "stroke"), shape, brush, width, checks))

BlurredRect ==
    /\ ~panicked
    /\ \E rect \in {RectA}, radius \in Radii, brush \in Colors :
            Do(blurred_rect(Begin(Ctx, "blurred_rect"), rect, radius, brush))

WithSave ==
    /\ ~panicked
    /\ \E f \in Callbacks, checks \in Builds(Ctx) :
            Do(with_save(Begin(Ctx, "with_save"), f, checks))

CustomRenderPass ==
    /\ ~panicked
    /\ \E label \in Labels, usage \in Usages, surface_ok \in BOOLEAN :
            Do(custom_render_pass(Begin(Ctx, "custom_render_pass"),
                                  label, usage, surface_ok))

DrawSvg ==
    /\ ~panicked
    /\ \E svg \in Svgs, rect \in DestRects, override_color \in Overrides :
            \E n \in {draw_svg(Begin(Ctx, "draw_svg"), svg, rect, override_color)} :
                /\ Len(n.primitives) <= MaxPrims
                /\ Len(n.geometry.vertices) <= MaxSvgVerts
                /\ Install(n)

(* A text call's layout becomes the state. *)
DoText(name, layout, queue) ==
    Install([Begin(Ctx, name) EXCEPT !.text_layout = Some(layout),
                                     !.text_queue = queue])

NewTextLayout ==
    /\ ~panicked
    /\ ~text_layout.some
    /\ \E text \in Texts : DoText("new_text_layout", new_text_layout(text), None)

RangeAttribute ==
    /\ ~panicked
    /\ text_layout.some
    /\ text_layout.v.stage = "builder"
    /\ Len(text_layout.v.added) < MaxSpans
    /\ \E range \in Ranges, k \in DOMAIN TextAttributes :
            DoText("range_attribute",
                   range_attribute(text_layout.v, range, TextAttributes[k]), None)

Build ==
    /\ ~panicked
    /\ text_layout.some
    /\ text_layout.v.stage = "builder"
    /\ DoText("build", build(text_layout.v), None)

BuildWithCtx ==
    /\ ~panicked
    /\ text_layout.some
    /\ text_layout.v.stage = "builder"
    /\ DoText("build_with_ctx", build_with_ctx(text_layout.v), None)

Rebuild ==
    /\ ~panicked
    /\ text_layout.some
    /\ text_layout.v.stage = "layout"
    /\ DoText("rebuild", rebuild(text_layout.v), text_queue)

DrawText ==
    /\ ~panicked
    /\ text_layout.some
    /\ text_layout.v.stage = "layout"
    /\ text_layout.v.draws < MaxDraws
    /\ \E pos \in Origins, z \in Depths :
            LET layout == draw_text(text_layout.v, pos, z)
            IN  DoText("draw_text", layout,
                       Some([instances |-> layout.instances, pos |-> pos, z |-> z]))

Finish ==
    /\ ~panicked
    /\ \E surface_ok \in BOOLEAN : Do(finish(Begin(Ctx, "finish"), surface_ok))

(* The state stack: save, restore, transform, clip and with_save. *)
Next ==
    \/ Save
    \/ Restore
    \/ Transform
    \/ Clip
    \/ WithSave

Spec == Init /\ [][Next]_vars

(* Drawing: the calls that emit primitive records and geometry. *)
DrawNext ==
    \/ Transform
    \/ Clip
    \/ Fill
    \/ Stroke
    \/ BlurredRect

DrawSpec == Init /\ [][DrawNext]_vars

(* Vector images among the other calls that append records and geometry. *)
SvgNext ==
    \/ Transform
    \/ Clip
    \/ Fill
    \/ BlurredRect
    \/ DrawSvg

SvgSpec == Init /\ [][SvgNext]_vars

(* The geometry batch: the calls that append vertices and indices. *)
MeshNext ==
    \/ Transform
    \/ Fill
    \/ Stroke
    \/ DrawSvg

MeshSpec == Init /\ [][MeshNext]_vars

(* Text: a layout is built, rebuilt and drawn. *)
TextNext ==
    \/ NewTextLayout
    \/ RangeAttribute
    \/ Build
    \/ BuildWithCtx
    \/ Rebuild
    \/ DrawText

TextSpec == Init /\ [][TextNext]_vars

(* One frame: drawing, custom passes and finish(). *)
FrameNext ==
    \/ (Len(primitives) < MaxFramePrims /\ Transform)
    \/ (Len(geometry.vertices) < MaxFrameVerts /\ Fill)
    \/ CustomRenderPass
    \/ Finish

FrameSpec == Init /\ [][FrameNext]_vars

----------------------------------------------------------------------------
(* The claims. *)

Translation(t) == <<t[5], t[6]>>
(* The table position a primitive index names (indices below 2^31). *)
Idx(id) == id[1] * Half + id[2]
Events(log, kind) == {i \in 1..Len(log) : log[i][1] = kind}

(* C1: a restore() that matches a save() brings back the current transform *)
(* and the clip-stack depth of the moment before that save(), whatever     *)
(* balanced save/restore, transform and clip calls were made in between:   *)
(* in every reachable state with a frame on the state stack, restore()     *)
(* yields the transform and the depth recorded at the frame's save().      *)
C1_RoundTrip ==
    (state_stack # <<>> /\ ~panicked) =>
        LET c == restore(Begin(Ctx, "restore"))
        IN  /\ c.result = "Ok"
            /\ c.cur_transform = Last(saved).transform
            /\ Len(c.clip_stack) = Len(Last(saved).clip_stack)
            /\ Len(c.state_stack) = Len(state_stack) - 1

(* C1 witness: a restore() has just undone a transform and a clip made     *)
(* inside its frame.                                                       *)
C1_Witness ==
    /\ op = "restore" /\ result = "Ok"
    /\ state_stack = <<>> /\ clip_stack = <<>> /\ cur_transform = Identity
    /\ \E i \in 1..Len(primitives) :
            primitives[i].clip = 1 /\ primitives[i].translate # <<0, 0>>

(* C2: restore() on an empty state stack returns StackUnbalance and        *)
(* changes nothing: transform, clip stack, state stack, primitive table    *)
(* and geometry stay as they are, and the call does not panic.             *)
C2_RestoreOnEmpty ==
    (state_stack = <<>> /\ ~panicked) =>
        LET c == restore(Begin(Ctx, "restore"))
        IN  /\ c.result = "StackUnbalance"
            /\ ~c.panicked
            /\ c.cur_transform = cur_transform
            /\ c.clip_stack = clip_stack
            /\ c.state_stack = state_stack
            /\ c.primitives = primitives
            /\ c.geometry = geometry

(* C2 witness: restore() has just failed on a context that holds clips and *)
(* primitive records.                                                      *)
C2_Witness ==
    /\ op = "restore" /\ result = "StackUnbalance"
    /\ state_stack = <<>> /\ clip_stack # <<>> /\ primitives # <<>>
    /\ cur_transform # Identity

(* C3: every vertex of the geometry batch carries a primitive index below  *)
(* the primitive table's length at the time the vertex was appended, also  *)
(* when fill, stroke or blurred_rect is the first call on a new context.   *)
C3_VertexIndexInTable ==
    \A k \in 1..Len(geometry.vertices) :
        U32Less(geometry.vertices[k].primitive_id, geometry.vertices[k].table_len)

(* C4: no sequence of drawing calls on a new context panics. *)
C4_NoPanic == ~panicked

C6_RestorePopsFrameClips ==
    (state_stack # <<>> /\ ~panicked) =>
        LET top == Last(state_stack)
            atSave == Last(saved).clip_stack
            c == restore(Begin(Ctx, "restore"))
        IN  /\ Len(clip_stack) >= top.n_clip
            /\ top.n_clip = Len(clip_stack) - Len(atSave)
            /\ c.clip_stack = SubSeq(clip_stack, 1, Len(clip_stack) - top.n_clip)
            /\ c.clip_stack = atSave

(* C6 witness: save, clip(A), clip(B), restore: the restore has popped     *)
(* both entries.                                                           *)
C6_Witness ==
    /\ op = "restore" /\ result = "Ok"
    /\ state_stack = <<>> /\ clip_stack = <<>>
    /\ Len(primitives) = 3
    /\ primitives[1].clip_rect = RectA
    /\ primitives[2].clip_rect = RectB
    /\ primitives[3].clip = 0

(* The number of calls named `name` in a callback's body. *)
Count(body, name) == Cardinality({i \in 1..Len(body) : body[i][1] = name})

(* C7: with_save(f) runs save, then f, then restore; the restore runs      *)
(* whether f returns Ok or an error; with_save returns f's error when f    *)
(* fails and the restore's result when f succeeds.                         *)
C7_WithSaveRestores ==
    ~panicked =>
        \A f \in Callbacks, checks \in Builds(Ctx) :
            LET c == with_save(Begin(Ctx, "with_save"), f, checks)
                n == Len(c.calls)
                depth == Len(state_stack) + 1 + Count(f.body, "save")
                            - Count(f.body, "restore")
            IN  ~c.panicked =>
                    /\ n = Len(f.body) + 3
                    /\ c.calls[1] = "save"
                    /\ c.calls[n - 1] = "f"
                    /\ c.calls[n] = "restore"
                    /\ Len(c.state_stack) = IF depth > 0 THEN depth - 1 ELSE 0
                    /\ f.ret # "Ok" => c.result = f.ret
                    /\ f.ret = "Ok" =>
                            c.result = IF depth > 0 THEN "Ok" ELSE "StackUnbalance"

(* C7 witness: a with_save whose callback failed after a transform has run *)
(* its restore and returned the callback's error.                          *)
C7_Witness ==
    /\ op = "with_save" /\ result = "NotSupported"
    /\ calls = <<"save", "transform", "f", "restore">>
    /\ cur_transform = Identity /\ state_stack = <<>>

(* The events a call added to the surface and queue log. *)
Added(c) == SubSeq(c.gpu, Len(gpu) + 1, Len(c.gpu))
IsCustom(e) == e[1] = "submit" /\ e[2].label # "primary"
IsPrimary(e) == e[1] = "submit" /\ e[2].label = "primary"
RECURSIVE CustomSubmits(_)
(* The custom buffers among the events, in the order they were submitted. *)
CustomSubmits(log) ==
    IF log = <<>> THEN <<>>
    ELSE IF IsCustom(log[1]) THEN <<log[1][2]>> \o CustomSubmits(Tail(log))
    ELSE CustomSubmits(Tail(log))

(* C8: every successful finish() presents the acquired surface exactly     *)
(* once, with or without primitive records, geometry and queued custom     *)
(* passes, and submits every queued custom buffer: the texture the frame   *)
(* acquired is presented by the finish() that succeeds and by nothing      *)
(* else.                                                                   *)
C8_PresentOncePerFinish ==
    /\ Cardinality(Events(gpu, "present")) =
            IF draw_command_buffers.some THEN 0 ELSE 1
    /\ (~panicked /\ draw_command_buffers.some) =>
            \A surface_ok \in BOOLEAN :
                LET c == finish(Begin(Ctx, "finish"), surface_ok)
                    new == Added(c)
                IN  (c.result = "Ok" /\ ~c.panicked) =>
                        /\ Cardinality(Events(new, "present")) = 1
                        /\ \E t \in 1..(Len(gpu) + 1) :
                                /\ <<"acquire", t>> \in {c.gpu[i] : i \in 1..Len(c.gpu)}
                                /\ <<"present", t>> \in {new[i] : i \in 1..Len(new)}
                        /\ CustomSubmits(new) = draw_command_buffers.v
                        /\ c.texture = None /\ c.tex_view = None

(* C8 witness: a finish() on a frame without primitive records or geometry *)
(* has submitted a queued custom buffer and presented.                     *)
C8_Witness ==
    /\ op = "finish" /\ result = "Ok"
    /\ primitives = <<>> /\ geometry.vertices = <<>>
    /\ CustomSubmits(gpu) # <<>>
    /\ Last(gpu)[1] = "present"

(* C9: finish() submits the primary buffer before any custom buffer, the   *)
(* custom buffers in the order their custom_render_pass calls completed,   *)
(* and presents after all submissions; no buffer is submitted before       *)
(* finish().                                                               *)
C9_SubmissionOrder ==
    /\ draw_command_buffers.some => Events(gpu, "submit") = {}
    /\ (~panicked /\ draw_command_buffers.some) =>
            /\ \A surface_ok \in BOOLEAN :
                LET c == finish(Begin(Ctx, "finish"), surface_ok)
                    new == Added(c)
                IN  (c.result = "Ok" /\ ~c.panicked) =>
                        /\ \A i, j \in 1..Len(new) :
                                (IsPrimary(new[i]) /\ IsCustom(new[j])) => i < j
                        /\ \A i, j \in 1..Len(new) :
                                (new[i][1] = "submit" /\ new[j][1] = "present") => i < j
                        /\ CustomSubmits(new) = draw_command_buffers.v
                        /\ primitives # <<>> => \E i \in 1..Len(new) : IsPrimary(new[i])
            /\ \A label \in Labels, usage \in Usages, surface_ok \in BOOLEAN :
                LET c == custom_render_pass(Begin(Ctx, "custom_render_pass"),
                                            label, usage, surface_ok)
                IN  (c.result = "Ok" /\ ~c.panicked) =>
                        /\ Events(c.gpu, "submit") = {}
                        /\ Len(c.draw_command_buffers.v) = Len(draw_command_buffers.v) + 1
                        /\ SubSeq(c.draw_command_buffers.v, 1, Len(draw_command_buffers.v))
                                = draw_command_buffers.v
                        /\ Last(c.draw_command_buffers.v).label = label

(* C9 witness: a finish() has submitted the primary buffer, then the       *)
(* buffers of two custom passes in the order of the passes, then           *)
(* presented.                                                              *)
C9_Witness ==
    /\ op = "finish" /\ result = "Ok"
    /\ Len(gpu) = 5
    /\ gpu[1][1] = "acquire"
    /\ IsPrimary(gpu[2])
    /\ IsCustom(gpu[3]) /\ gpu[3][2].label = "b"
    /\ IsCustom(gpu[4]) /\ gpu[4][2].label = "a"
    /\ gpu[5][1] = "present"

(* C10: within a frame (until its finish() has succeeded) the surface      *)
(* texture is acquired at most once: the view is cached by the first       *)
(* wgpu_view() that succeeds, and every later wgpu_view() returns the      *)
(* cached view without acquiring again.                                    *)
C10_AcquireOncePerFrame ==
    /\ draw_command_buffers.some =>
            /\ Cardinality(Events(gpu, "acquire")) = IF tex_view.some THEN 1 ELSE 0
            /\ tex_view.some <=> texture.some
            /\ tex_view.some => <<"acquire", tex_view.v>> \in {gpu[i] : i \in 1..Len(gpu)}
    /\ (op = "finish" /\ result = "Ok") => Cardinality(Events(gpu, "acquire")) = 1
    /\ (~panicked /\ tex_view.some) =>
            \A surface_ok \in BOOLEAN :
                LET c == wgpu_view(Ctx, surface_ok)
                IN  c.result = "Ok" /\ c.tex_view = tex_view /\ c.gpu = gpu

(* C10 witness: two custom passes and a finish() have used one acquired    *)
(* texture.                                                                *)
C10_Witness ==
    /\ op = "finish" /\ result = "Ok"
    /\ Len(CustomSubmits(gpu)) = 2
    /\ Cardinality(Events(gpu, "acquire")) = 1

(* C11: when the surface cannot be acquired inside finish(), finish()      *)
(* returns an error and the frame is aborted: nothing is submitted,        *)
(* nothing is presented, and no view or texture is cached; the queued      *)
(* custom buffers and the accumulated geometry stay as they were.          *)
C11_FinishAbortsOnSurfaceFailure ==
    /\ (~panicked /\ ~tex_view.some) =>
            LET c == finish(Begin(Ctx, "finish"), FALSE)
            IN  /\ c.result = "NotSupported"
                /\ ~c.panicked
                /\ c.gpu = gpu
                /\ c.tex_view = None /\ c.texture = None
                /\ c.draw_command_buffers = draw_command_buffers
                /\ c.geometry = geometry /\ c.primitives = primitives
    /\ (op = "finish" /\ result = "NotSupported") =>
            /\ tex_view = None /\ texture = None
            /\ gpu # <<>> => Last(gpu)[1] = "present"
            /\ draw_command_buffers.some => gpu = <<>>

(* C11 witness: a finish() on a frame that holds geometry has failed to    *)
(* acquire the surface and has left the queue and the surface alone.       *)
C11_Witness ==
    /\ op = "finish" /\ result = "NotSupported"
    /\ geometry.vertices # <<>> /\ primitives # <<>>
    /\ gpu = <<>> /\ tex_view = None /\ texture = None

(* C12: inside a custom_render_pass callback, asking for a render pass     *)
(* before configure_viewport yields the MissingViewport error, not a       *)
(* crash, and no pass is produced; after configure_viewport the request    *)
(* succeeds.                                                               *)
C12_MissingViewportIsAnError ==
    ~panicked =>
        \A label \in Labels, usage \in Usages :
            LET c == custom_render_pass(Begin(Ctx, "custom_render_pass"),
                                        label, usage, TRUE)
            IN  IF usage.body[1] = "configure_viewport"
                THEN /\ ~c.panicked
                     /\ c.result = usage.ret
                ELSE /\ ~c.panicked
                     /\ c.result = "MissingViewport"
                     /\ c.draw_command_buffers = draw_command_buffers

(* The image with the given identity. *)
SvgOf(id) == CHOOSE svg \in Svgs : svg.id = id

(* C13: drawing a cached vector image, any number of times, with different *)
(* destination rectangles and colour overrides, never changes its cache    *)
(* entry: after every draw the cached vertices, indices and transform      *)
(* variants are those stored when the entry was built.                     *)
C13_CacheEntryImmutable ==
    /\ \A id \in DOMAIN svg_store : svg_store[id] = SvgData(SvgOf(id))
    /\ ~panicked =>
            \A svg \in Svgs, rect \in DestRects, override_color \in Overrides :
                LET c == draw_svg(Begin(Ctx, "draw_svg"), svg, rect, override_color)
                IN  /\ \A id \in DOMAIN svg_store :
                            /\ id \in DOMAIN c.svg_store
                            /\ c.svg_store[id] = svg_store[id]
                    /\ c.svg_store[svg.id] = SvgData(svg)

(* C13 witness: the same image has been drawn twice, at different places   *)
(* and in different colours.                                               *)
C13_Witness ==
    /\ op = "draw_svg"
    /\ DOMAIN svg_store = {"icon"}
    /\ Len(geometry.vertices) = 6
    /\ geometry.vertices[1].pos = geometry.vertices[4].pos
    /\ geometry.vertices[1].translate # geometry.vertices[4].translate
    /\ geometry.vertices[1].color # geometry.vertices[4].color

(* C14: finish() uploads the batch and the table, issues the main draw and *)
(* submits a primary command buffer if and only if the geometry batch is   *)
(* non-empty; a frame with primitive records but no geometry (transform or *)
(* clip calls only) issues no main draw.                                   *)
C14_MainDrawIffGeometry ==
    (~panicked /\ draw_command_buffers.some) =>
        LET c == finish(Begin(Ctx, "finish"), TRUE)
            new == Added(c)
        IN  (c.result = "Ok" /\ ~c.panicked) =>
                ((\E i \in 1..Len(new) : IsPrimary(new[i]))
                    <=> geometry.vertices # <<>>)

(* The record a call appended, when it appended exactly one. *)
AppendedOne(c) ==
    /\ Len(c.primitives) = Len(primitives) + 1
    /\ SubSeq(c.primitives, 1, Len(primitives)) = primitives
    /\ Last(c.primitives).translate = Translation(c.cur_transform)

(* C15: each transform(), each clip() with a rectangle and each successful *)
(* restore() appends exactly one primitive record and save() appends none; *)
(* the record's translate is the translation part of the current transform *)
(* after the call. After save, transform(translate 5,5), restore from an   *)
(* identity transform, the record the restore emits, which a rectangle     *)
(* fill that follows is tagged with, has translate (0,0).                  *)
C15_OneRecordPerStateChange ==
    /\ (op \in {"transform", "restore"} /\ result = "Ok") =>
            Last(primitives).translate = Translation(cur_transform)
    /\ ~panicked =>
            /\ \A t \in Deltas : AppendedOne(transform(Begin(Ctx, "transform"), t))
            /\ \A r \in {RectA, RectB} :
                    AppendedOne(clip(Begin(Ctx, "clip"), RectShape(r)))
            /\ LET c == restore(Begin(Ctx, "restore"))
               IN  IF c.result = "Ok" THEN AppendedOne(c)
                   ELSE c.primitives = primitives
            /\ save(Begin(Ctx, "save")).primitives = primitives
            /\ LET c1 == restore(transform(save(Begin(Ctx, "save")), Translate(5, 5)))
                   c2 == fill(c1, RectShape(RectA), "red", TRUE)
                   n == Len(geometry.vertices)
               IN  /\ c1.result = "Ok"
                   /\ Len(c1.primitives) = Len(primitives) + 2
                   /\ Last(c1.primitives).translate = Translation(cur_transform)
                   /\ cur_transform = Identity =>
                            Last(c1.primitives).translate = <<0, 0>>
                   /\ Len(c2.geometry.vertices) = n + 4
                   /\ \A k \in (n + 1)..(n + 4) :
                            c2.geometry.vertices[k].primitive_id =
                                U32Of(Len(c1.primitives) - 1)

(* C15 witness: save, transform(translate 5,5), restore from the identity: *)
(* the transform's record has translate (5,5) and the restore's (0,0).     *)
C15_Witness ==
    /\ op = "restore" /\ result = "Ok"
    /\ state_stack = <<>> /\ cur_transform = Identity
    /\ Len(primitives) = 2
    /\ primitives[1].translate = <<5, 5>>
    /\ primitives[2].translate = <<0, 0>>

(* A vertex's primitive index names a record of a table of length n. *)
Refers(v, n) == U32Less(v.primitive_id, n)

(* C16: the primitive table is append-only within a frame: no call makes   *)
(* it shorter, no call changes or removes a record that a vertex already   *)
(* in the batch refers to, and so the record a vertex's primitive index    *)
(* refers to was in the table when the vertex was appended.                *)
C16_AppendOnly ==
    [][ /\ Len(primitives') >= Len(primitives)
        /\ \A k \in 1..Len(geometry.vertices) :
                LET v == geometry.vertices[k]
                IN  Refers(v, Len(primitives)) =>
                        primitives'[Idx(v.primitive_id) + 1] =
                            primitives[Idx(v.primitive_id) + 1]
        /\ \A k \in 1..Len(geometry'.vertices) :
                LET v == geometry'.vertices[k]
                IN  Refers(v, Len(primitives')) => Refers(v, v.table_len)
      ]_vars

(* C16 witness: a blurred_rect has appended its two records behind a       *)
(* record that the vertices of an earlier fill refer to.                   *)
C16_Witness ==
    /\ op = "blurred_rect"
    /\ Len(primitives) = 3
    /\ primitives[2].blur_radius # 0
    /\ Len(geometry.vertices) = 8
    /\ geometry.vertices[1].primitive_id = U32Of(0)
    /\ geometry.vertices[1].table_len = 1
    /\ geometry.vertices[5].primitive_id = U32Of(1)

(* C17: whenever the state stack is non-empty, the top frame's captured    *)
(* parent transform composed with its relative transform is the current    *)
(* transform: after every save, transform and restore, also right after an *)
(* inner restore has made an outer frame the top again.                    *)
C17_ParentTimesRelative ==
    state_stack # <<>> =>
        AffineMul(Last(state_stack).transform, Last(state_stack).rel_transform)
            = cur_transform

(* C17 witness: an inner restore has made the top an outer frame that was  *)
(* saved under a transform and holds a relative transform of its own.      *)
C17_Witness ==
    /\ op = "restore" /\ result = "Ok"
    /\ Len(state_stack) = 1
    /\ state_stack[1].transform # Identity
    /\ state_stack[1].rel_transform # Identity
    /\ cur_transform # state_stack[1].transform

(* The image of a point and the bounding box of the image of a rectangle   *)
(* under an affine transform.                                              *)
PointImage(t, p) == <<t[1] * p[1] + t[3] * p[2] + t[5], t[2] * p[1] + t[4] * p[2] + t[6]>>
MinOf(S) == CHOOSE x \in S : \A y \in S : x <= y
MaxOf(S) == CHOOSE x \in S : \A y \in S : x >= y
RectImage(t, r) ==
    LET corners == {PointImage(t, <<r[1], r[2]>>), PointImage(t, <<r[3], r[2]>>),
                    PointImage(t, <<r[3], r[4]>>), PointImage(t, <<r[1], r[4]>>)}
        xs == {p[1] : p \in corners}
        ys == {p[2] : p \in corners}
    IN  <<MinOf(xs), MinOf(ys), MaxOf(xs), MaxOf(ys)>>

(* C18: clip(rect) pushes onto the clip stack the image of rect under the  *)
(* whole current transform (its scale and linear part as well as its       *)
(* translation), adds one to the top frame's clip counter when there is a  *)
(* frame, and emits one primitive record.                                  *)
C18_ClipUnderFullTransform ==
    ~panicked =>
        \A r \in {RectA, RectB} :
            LET c == clip(Begin(Ctx, "clip"), RectShape(r))
            IN  /\ Len(c.clip_stack) = Len(clip_stack) + 1
                /\ Last(c.clip_stack) = RectImage(cur_transform, r)
                /\ state_stack # <<>> =>
                        Last(c.state_stack).n_clip = Last(state_stack).n_clip + 1
                /\ Len(c.primitives) = Len(primitives) + 1

(* The vertices a call appended to the batch. *)
NewVertices(c) == SubSeq(c.geometry.vertices, Len(geometry.vertices) + 1,
                         Len(c.geometry.vertices))

(* C19: blurred_rect(rect, radius, brush) tessellates, as an ordinary      *)
(* fill, the rectangle inflated by 3 times the radius on every side, and   *)
(* every vertex it appends is tagged with a primitive record whose         *)
(* blur_radius is the radius and whose blur_rect is the rect as given.     *)
C19_BlurredRect ==
    /\ op = "blurred_rect" =>
            \A k \in (Len(geometry.vertices) - 3)..Len(geometry.vertices) :
                LET v == geometry.vertices[k]
                IN  /\ Refers(v, Len(primitives))
                    /\ primitives[Idx(v.primitive_id) + 1].blur_radius \in Radii
                    /\ primitives[Idx(v.primitive_id) + 1].blur_rect = RectA
    /\ ~panicked =>
            \A rect \in {RectA, RectB}, radius \in {1, 2} :
                LET c == blurred_rect(Begin(Ctx, "blurred_rect"), rect, radius, "red")
                    new == NewVertices(c)
                    d == 3 * radius
                IN  /\ Len(new) = 4
                    /\ Len(c.geometry.indices) = Len(geometry.indices) + 6
                    /\ {new[k].pos : k \in 1..4} =
                            {<<rect[1] - d, rect[2] - d>>, <<rect[3] + d, rect[2] - d>>,
                             <<rect[3] + d, rect[4] + d>>, <<rect[1] - d, rect[4] + d>>}
                    /\ \A k \in 1..4 :
                            /\ new[k].color = format_color("red")
                            /\ Refers(new[k], Len(c.primitives))
                            /\ LET p == c.primitives[Idx(new[k].primitive_id) + 1]
                               IN  p.blur_radius = radius /\ p.blur_rect = rect

(* C19 witness: a blurred_rect of the 10x10 rectangle with radius 1, drawn *)
(* under a clip: its four vertices span (-3,-3)-(13,13) and are tagged     *)
(* with the record that holds the radius and the 10x10 rectangle.          *)
C19_Witness ==
    /\ op = "blurred_rect"
    /\ Len(primitives) = 3 /\ Len(geometry.vertices) = 4
    /\ primitives[1].clip = 1
    /\ primitives[2].blur_radius = 1 /\ primitives[2].blur_rect = RectA
    /\ primitives[3].blur_radius = 0
    /\ \A k \in 1..4 : geometry.vertices[k].primitive_id = U32Of(1)
    /\ \E k \in 1..4 : geometry.vertices[k].pos = <<-3, -3>>
    /\ \E k \in 1..4 : geometry.vertices[k].pos = <<13, 13>>

(* C20: draw_svg with a cached image of n transform variants appends       *)
(* exactly n + 1 primitive records and copies every cached vertex with     *)
(* primitive index (table length before the call) + (cache-local index);   *)
(* when every cache-local index is at most n, every copied vertex's index  *)
(* is below the table length after the call, whatever records and geometry *)
(* were accumulated before.                                                *)
C20_SvgIndicesRebased ==
    ~panicked =>
        \A svg \in Svgs, rect \in DestRects, override_color \in Overrides :
            LET c == draw_svg(Begin(Ctx, "draw_svg"), svg, rect, override_color)
                new == NewVertices(c)
                n == Len(svg.transforms)
                cached == SvgData(svg).geometry.vertices
            IN  /\ Len(c.primitives) = Len(primitives) + n + 1
                /\ SubSeq(c.primitives, 1, Len(primitives)) = primitives
                /\ Len(new) = Len(cached)
                /\ \A k \in 1..Len(new) :
                        /\ new[k].pos = cached[k].pos
                        /\ new[k].primitive_id =
                                U32Of(Len(primitives) + Idx(cached[k].primitive_id))
                        /\ Idx(cached[k].primitive_id) <= n =>
                                Refers(new[k], Len(c.primitives))

(* C20 witness: the image with one transform variant has been drawn behind *)
(* the record and the geometry of another image: two records were appended *)
(* and the copies carry the indices 1 and 2 of a table of 3.               *)
C20_Witness ==
    /\ op = "draw_svg"
    /\ Len(primitives) = 3
    /\ Len(geometry.vertices) = 9
    /\ geometry.vertices[3].primitive_id = U32Of(0)
    /\ geometry.vertices[4].primitive_id = U32Of(1)
    /\ geometry.vertices[9].primitive_id = U32Of(2)
    /\ geometry.indices[4] = 3

(* The indices a call appended to the batch. *)
NewIndices(c) == SubSeq(c.geometry.indices, Len(geometry.indices) + 1,
                        Len(c.geometry.indices))

(* C21: in every reachable state every entry of the batch's index list is  *)
(* below the vertex count; and after any interleaving of fills, strokes    *)
(* and draw_svg calls, the indices a draw_svg appends (cached index plus   *)
(* the vertex count before the call) point only at vertices that same call *)
(* appended.                                                               *)
C21_IndicesInRange ==
    /\ \A i \in 1..Len(geometry.indices) :
            geometry.indices[i] \in 0..(Len(geometry.vertices) - 1)
    /\ ~panicked =>
            \A svg \in Svgs, rect \in DestRects, override_color \in Overrides :
                LET c == draw_svg(Begin(Ctx, "draw_svg"), svg, rect, override_color)
                    new == NewIndices(c)
                IN  /\ Len(new) = Len(svg.indices)
                    /\ SubSeq(c.geometry.indices, 1, Len(geometry.indices))
                            = geometry.indices
                    /\ \A i \in 1..Len(new) :
                            /\ new[i] = svg.indices[i] + Len(geometry.vertices)
                            /\ new[i] >= Len(geometry.vertices)
                            /\ new[i] < Len(c.geometry.vertices)

(* C21 witness: a draw_svg behind a rectangle fill: the fill's indices     *)
(* name the vertices 0..3 and the image's the vertices 4..6.               *)
C21_Witness ==
    /\ op = "draw_svg"
    /\ Len(geometry.vertices) = 7 /\ Len(geometry.indices) = 9
    /\ geometry.vertices[1].primitive_id = U32Of(0)
    /\ SubSeq(geometry.indices, 1, 6) = <<0, 1, 2, 0, 2, 3>>
    /\ SubSeq(geometry.indices, 7, 9) = <<4, 5, 6>>
    /\ geometry.vertices[5].translate # <<0, 0>>

(* C22: fill(shape, brush) produces a triangle mesh and appends it to the  *)
(* batch for every supported kind of shape, rectangles, lines and general  *)
(* paths alike; a fill of a non-degenerate path that is not a rectangle    *)
(* makes the vertex count larger.                                          *)
C22_FillEveryShape ==
    (~panicked /\ primitives # <<>>) =>
        \A shape \in DrawShapes, checks \in Builds(Ctx) :
            LET c == fill(Begin(Ctx, "fill"), shape, "red", checks)
            IN  /\ ~c.panicked
                /\ shape.kind \in {"rect", "path"} =>
                        /\ Len(c.geometry.vertices) > Len(geometry.vertices)
                        /\ Len(c.geometry.indices) >= Len(geometry.indices) + 3

(* The glyph lookup rebuild() makes for the character at an index. *)
GlyphAt(layout, index) ==
    get_glyph_pos(layout.text[index + 1], Attributes_font(layout.attrs, index),
                  Attributes_size(layout.attrs, index))
(* The indices of the characters whose lookup succeeds. *)
Rasterized(layout) == {i \in 0..(Len(layout.text) - 1) : GlyphAt(layout, i).some}
RECURSIVE SumWidths(_, _)
SumWidths(layout, S) ==
    IF S = {} THEN 0
    ELSE LET i == CHOOSE j \in S : TRUE
         IN  Width(GlyphAt(layout, i).v.rect) + SumWidths(layout, S \ {i})

(* The instances are those of the characters whose lookup succeeds, in     *)
(* text order, each at the sum of the widths of the glyphs before it.      *)
InstancesOfText(layout) ==
    LET ok == Rasterized(layout)
    IN  /\ Len(layout.instances) = Cardinality(ok)
        /\ Len(layout.instances_origins) = Cardinality(ok)
        /\ \A i \in ok :
                LET before == {j \in ok : j < i}
                    k == Cardinality(before) + 1
                    x == SumWidths(layout, before)
                IN  /\ layout.instances[k].tex = GlyphAt(layout, i).v.cache_rect
                    /\ layout.instances[k].size[1] = Width(GlyphAt(layout, i).v.rect)
                    /\ layout.instances[k].origin = <<x, 0, 0>>
                    /\ layout.instances_origins[k] = <<x, 0>>

(* C23: rebuild() walks the characters in order and produces exactly one   *)
(* instance per character whose glyph lookup succeeds, in text order, each *)
(* with its local x origin at the sum of the widths of the glyphs emitted  *)
(* before it; a character whose lookup fails gives no instance and no pen  *)
(* advance; and the instances of a rebuild before are discarded.           *)
C23_RebuildInstances ==
    (text_layout.some /\ text_layout.v.stage = "layout") =>
        /\ op \in {"rebuild", "build_with_ctx"} => InstancesOfText(text_layout.v)
        /\ InstancesOfText(rebuild(text_layout.v))
        /\ rebuild(rebuild(text_layout.v)) = rebuild(text_layout.v)

(* C23 witness: a layout of "a?b" that was drawn has been rebuilt: two     *)
(* instances, the second at the width of the first.                        *)
C23_Witness ==
    /\ op = "rebuild"
    /\ text_layout.v.text = <<"a", "?", "b">>
    /\ text_layout.v.draws > 0
    /\ Len(text_layout.v.instances) = 2
    /\ text_layout.v.instances[1].origin = <<0, 0, 0>>
    /\ text_layout.v.instances[2].origin = <<3, 0, 0>>
    /\ text_layout.v.instances[2].tex[1] = "b"

(* Every instance is at its layout-local offset plus pos, at depth z. *)
DrawnAt(layout, pos, z) ==
    \A i \in 1..Len(layout.instances) :
        layout.instances[i].origin =
            <<layout.instances_origins[i][1] + pos[1],
              layout.instances_origins[i][2] + pos[2], z>>

(* C24: after any sequence of draw_text calls on a layout, every           *)
(* instance's absolute origin is its layout-local offset plus the origin   *)
(* given to the most recent call, at that call's depth: the origins are    *)
(* recomputed from the stored offsets on each call and never accumulate,   *)
(* so drawing twice at the same origin yields the same instances.          *)
C24_DrawTextRecomputes ==
    (text_layout.some /\ text_layout.v.stage = "layout") =>
        /\ op = "draw_text" =>
                /\ text_queue.some
                /\ DrawnAt(text_layout.v, text_queue.v.pos, text_queue.v.z)
                /\ text_queue.v.instances = text_layout.v.instances
        /\ Len(text_layout.v.instances_origins) = Len(text_layout.v.instances)
        /\ \A pos \in Origins, z \in Depths :
                LET once == draw_text(text_layout.v, pos, z)
                    twice == draw_text(once, pos, z)
                IN  /\ DrawnAt(once, pos, z)
                    /\ once.instances_origins = text_layout.v.instances_origins
                    /\ twice.instances = once.instances

(* C24 witness: a layout of two glyphs drawn a second time, at (5,5) and   *)
(* depth 1: the second glyph sits at its offset 3 plus 5.                  *)
C24_Witness ==
    /\ op = "draw_text"
    /\ text_layout.v.draws = 2
    /\ text_queue.v.pos = <<5, 5>> /\ text_queue.v.z = 1
    /\ Len(text_layout.v.instances) = 2
    /\ text_layout.v.instances[1].origin = <<5, 5, 1>>
    /\ text_layout.v.instances[2].origin = <<8, 5, 1>>

(* The value the first-added range attribute of a kind gives the character *)
(* at an index, or the default when no range of that kind contains it.     *)
FirstAdded(added, kind, index, default) ==
    LET hits == {i \in 1..Len(added) :
                    added[i].attr.kind = kind /\ Contains(added[i].range, index)}
    IN  IF hits = {} THEN default
        ELSE added[CHOOSE i \in hits : \A j \in hits : i <= j].attr.v

(* C25: for each of the kinds colour, font and size, the value applied to  *)
(* the character at an index is the payload of the first-added range       *)
(* attribute of that kind whose range contains the index, and the layout   *)
(* default when none does; a range attribute of any of the three kinds     *)
(* given to the builder is stored and consulted.                           *)
C25_RangeAttributes ==
    text_layout.some =>
        LET layout == text_layout.v
        IN  \A index \in 0..(Len(layout.text) - 1) :
                /\ Attributes_color(layout.attrs, index) =
                        FirstAdded(layout.added, "TextColor", index, LayoutDefaults.fg_color)
                /\ Attributes_size(layout.attrs, index) =
                        FirstAdded(layout.added, "FontSize", index, LayoutDefaults.font_size)
                /\ Attributes_font(layout.attrs, index) =
                        FirstAdded(layout.added, "FontFamily", index, LayoutDefaults.font)

(* C26: when the callback given to custom_render_pass returns an error,    *)
(* custom_render_pass returns that error and the queue of pending custom   *)
(* buffers is unchanged (no buffer of the failed pass is queued, nor       *)
(* submitted by finish() later); a callback that succeeds appends exactly  *)
(* one buffer to the end of the queue; and the surface view acquired for   *)
(* the failed pass stays cached for the rest of the frame.                 *)
C26_FailedPassQueuesNothing ==
    /\ (op = "custom_render_pass" /\ result = "Failed" /\ draw_command_buffers.some) =>
            tex_view.some /\ texture.some /\ Events(gpu, "submit") = {}
    /\ (~panicked /\ draw_command_buffers.some) =>
            \A label \in Labels, ret \in {"Ok", "Failed"} :
                LET usage == [body |-> <<"configure_viewport", "render_pass">>,
                              ret |-> ret]
                    c == custom_render_pass(Begin(Ctx, "custom_render_pass"),
                                            label, usage, TRUE)
                    f == finish(Begin(c, "finish"), FALSE)
                IN  /\ ~c.panicked
                    /\ c.result = ret
                    /\ c.tex_view.some
                    /\ tex_view.some => c.tex_view = tex_view
                    /\ Cardinality(Events(c.gpu, "acquire")) = 1
                    /\ ret = "Failed" =>
                            /\ c.draw_command_buffers = draw_command_buffers
                            /\ f.result = "Ok"
                            /\ CustomSubmits(f.gpu) = draw_command_buffers.v
                            /\ Cardinality(Events(f.gpu, "acquire")) = 1
                    /\ ret = "Ok" =>
                            /\ Len(c.draw_command_buffers.v) =
                                    Len(draw_command_buffers.v) + 1
                            /\ SubSeq(c.draw_command_buffers.v, 1,
                                      Len(draw_command_buffers.v))
                                    = draw_command_buffers.v
                            /\ Last(c.draw_command_buffers.v).label = label

(* C26 witness: a pass whose callback failed, behind a pass that           *)
(* succeeded: one buffer is queued, and the view the first pass acquired   *)
(* is cached.                                                              *)
C26_Witness ==
    /\ op = "custom_render_pass" /\ result = "Failed"
    /\ Len(draw_command_buffers.v) = 1
    /\ tex_view.some
    /\ Cardinality(Events(gpu, "acquire")) = 1

(* The vertices a call appended are tagged with a record without blur that *)
(* carries the current translate and clip.                                 *)
TaggedPlain(c) ==
    \A k \in 1..Len(NewVertices(c)) :
        LET v == NewVertices(c)[k]
        IN  /\ Refers(v, Len(c.primitives))
            /\ LET p == c.primitives[Idx(v.primitive_id) + 1]
                   cc == current_clip(clip_stack)
               IN  /\ p.blur_radius = 0 /\ p.blur_rect = <<0, 0, 0, 0>>
                   /\ p.translate = Translation(cur_transform)
                   /\ p.clip = IF cc.some THEN 1 ELSE 0
                   /\ cc.some => p.clip_rect = cc.v

(* C27: blur parameters never leak to later geometry: blurred_rect appends *)
(* exactly two primitive records and its own vertices refer to the first,  *)
(* the blurred one; whatever calls follow the blurred_rect, the geometry   *)
(* of a later fill or stroke refers to a record with blur radius 0 that    *)
(* carries the current translate and clip.                                 *)
C27_BlurDoesNotLeak ==
    /\ primitives # <<>> => Last(primitives).blur_radius = 0
    /\ ~panicked =>
            LET c == blurred_rect(Begin(Ctx, "blurred_rect"), RectA, 1, "red")
            IN  /\ Len(c.primitives) = Len(primitives) + 2
                /\ SubSeq(c.primitives, 1, Len(primitives)) = primitives
                /\ c.primitives[Len(primitives) + 1].blur_radius = 1
                /\ Last(c.primitives).blur_radius = 0
                /\ \A k \in 1..Len(NewVertices(c)) :
                        NewVertices(c)[k].primitive_id = U32Of(Len(primitives))
    /\ (~panicked /\ primitives # <<>>) =>
            \A shape \in DrawShapes, checks \in Builds(Ctx) :
                /\ TaggedPlain(fill(Begin(Ctx, "fill"), shape, "red", checks))
                /\ TaggedPlain(stroke(Begin(Ctx, "stroke"), shape, "red", 2, checks))
                /\ Len(NewVertices(stroke(Begin(Ctx, "stroke"), shape, "red", 2,
                                          checks))) > 0

(* C27 witness: a blurred_rect, a transform and then a rectangle fill: the *)
(* blurred vertices refer to the blurred record, the fill's to the record  *)
(* of the transform, without blur.                                         *)
C27_Witness ==
    /\ op = "fill"
    /\ Len(primitives) = 3 /\ Len(geometry.vertices) = 8
    /\ primitives[1].blur_radius = 1
    /\ primitives[3].blur_radius = 0 /\ primitives[3].translate = <<5, 5>>
    /\ \A k \in 1..4 : geometry.vertices[k].primitive_id = U32Of(0)
    /\ \A k \in 5..8 : geometry.vertices[k].primitive_id = U32Of(2)

====
